---- MODULE Spec2Model ----
(***************************************************************************)
(* Model of heapless-bytes (src/src/lib.rs): Bytes<N>, a newtype around a  *)
(* heapless Vec<u8, N>, with its slice constructor, insert_slice_at, the   *)
(* heterogeneous comparisons and the serde adapter (serialize_bytes on     *)
(* encode, visit_bytes / visit_seq on decode).                             *)
(***************************************************************************)
EXTENDS Integers, Sequences, FiniteSets, TLC

\* ------------------------------------------------------------------ bounds
\* N::to_usize(), the capacity type parameter of Bytes<N>
Cap == 3
\* byte values range over 0..MaxByte (u8 in the source; no arithmetic on them)
MaxByte == 1
\* longest slice, blob or element sequence offered to an operation
MaxInput == Cap + 2

Byte == 0..MaxByte
SeqsUpTo(n) == UNION {[1..k -> Byte] : k \in 0..n}
\* every byte sequence one longer than the capacity or shorter, and the
\* sequences of MaxInput equal bytes
Inputs == SeqsUpTo(Cap + 1) \cup {[i \in 1..MaxInput |-> b] : b \in Byte}

Min(a, b) == IF a < b THEN a ELSE b

\* ------------------------------------------- heapless::Vec<u8, N> operations
\* Vec::push: Err(item) when the vector is full, otherwise appends
push(v, x) ==
  IF Len(v) = Cap THEN [ok |-> FALSE, vec |-> v]
  ELSE [ok |-> TRUE, vec |-> Append(v, x)]

\* Vec::extend_from_slice: checks the whole slice fits, then pushes each byte
RECURSIVE push_all(_, _, _)
push_all(v, other, i) ==
  IF i > Len(other) THEN v ELSE push_all(Append(v, other[i]), other, i + 1)

extend_from_slice(v, other) ==
  IF Len(v) + Len(other) > Cap THEN [ok |-> FALSE, vec |-> v]
  ELSE [ok |-> TRUE, vec |-> push_all(v, other, 1)]

\* Vec::resize_default: Err when new_len > capacity, else pad with 0 / truncate
resize_default(v, new_len) ==
  IF new_len > Cap THEN [ok |-> FALSE, vec |-> v]
  ELSE IF new_len > Len(v)
       THEN [ok |-> TRUE, vec |-> v \o [i \in 1..(new_len - Len(v)) |-> 0]]
       ELSE [ok |-> TRUE, vec |-> SubSeq(v, 1, new_len)]

\* ------------------------------------------------------ core slice operations
\* <[u8]>::copy_within(src_start..src_end, dest) on a 0-based slice: panics on
\* an inverted or out-of-range source and on a destination that does not fit
copy_within(raw, src_start, src_end, dest) ==
  IF src_start > src_end \/ src_end > Len(raw)
     \/ dest > Len(raw) - (src_end - src_start)
  THEN [panic |-> TRUE, raw |-> raw]
  ELSE [panic |-> FALSE,
        raw |-> [i \in 1..Len(raw) |->
                   IF i - 1 >= dest /\ i - 1 < dest + (src_end - src_start)
                   THEN raw[(i - 1 - dest) + src_start + 1]
                   ELSE raw[i]]]

\* raw[at..][..l].copy_from_slice(slice): panics when at > len or l > len - at
copy_from_slice(raw, at, l, slice) ==
  IF at > Len(raw) \/ l > Len(raw) - at \/ l # Len(slice)
  THEN [panic |-> TRUE, raw |-> raw]
  ELSE [panic |-> FALSE,
        raw |-> [i \in 1..Len(raw) |->
                   IF i - 1 >= at /\ i - 1 < at + l
                   THEN slice[i - at]
                   ELSE raw[i]]]

\* slice equality: same length and the same bytes
RECURSIVE bytes_eq_from(_, _, _)
bytes_eq_from(a, b, i) ==
  IF i > Len(a) THEN TRUE
  ELSE IF a[i] # b[i] THEN FALSE
  ELSE bytes_eq_from(a, b, i + 1)

slice_eq(a, b) ==
  IF Len(a) # Len(b) THEN FALSE ELSE bytes_eq_from(a, b, 1)

\* slice partial_cmp: compare the common prefix byte by byte, then the lengths
RECURSIVE cmp_from(_, _, _)
cmp_from(a, b, i) ==
  IF i > Min(Len(a), Len(b))
  THEN (IF Len(a) < Len(b) THEN "Less"
        ELSE IF Len(a) > Len(b) THEN "Greater" ELSE "Equal")
  ELSE IF a[i] < b[i] THEN "Less"
  ELSE IF a[i] > b[i] THEN "Greater"
  ELSE cmp_from(a, b, i + 1)

slice_partial_cmp(a, b) == cmp_from(a, b, 1)

\* ------------------------------------------------------------------ Bytes<N>
\* Bytes::from: wrap a vector
from(vec) == [bytes |-> vec]

\* Bytes::new
new == from(<<>>)

\* Bytes::into_vec: unwrap the vector
into_vec(self) == self.bytes

\* AsRef<[u8]>::as_ref
as_ref(self) == self.bytes

\* DerefMut::deref_mut
deref_mut(self) == self.bytes

\* try_from_slice that keeps the first Cap bytes instead of failing
try_from_slice_truncating(slice) ==
  [res |-> "Ok", value |-> <<from(SubSeq(slice, 1, Min(Len(slice), Cap)))>>]

\* Bytes::try_from_slice; value is the Option of the produced buffer
try_from_slice(slice) ==
  LET r == extend_from_slice(<<>>, slice) IN
  IF r.ok THEN [res |-> "Ok", value |-> <<from(r.vec)>>]
  ELSE [res |-> "Err", value |-> <<>>]

\* insert_slice_at growing the storage without the capacity check
insert_slice_at_unchecked(self, slice, at) ==
  LET l == Len(slice)
      before == Len(self.bytes)
      grown == self.bytes \o [i \in 1..l |-> 0]
      moved == copy_within(grown, at, before, at + l)
  IN IF moved.panic THEN [res |-> "Panic", self |-> from(grown)]
     ELSE [res |-> "Ok", self |-> from(copy_from_slice(moved.raw, at, l, slice).raw)]

\* insert_slice_at without the move of the existing suffix
insert_slice_at_noshift(self, slice, at) ==
  LET l == Len(slice)
      before == Len(self.bytes)
      grown == resize_default(self.bytes, before + l)
  IN IF ~grown.ok THEN [res |-> "Err", self |-> self]
     ELSE IF at > before THEN [res |-> "Panic", self |-> from(grown.vec)]
     ELSE [res |-> "Ok", self |-> from(copy_from_slice(grown.vec, at, l, slice).raw)]

\* insert_slice_at filling the buffer up to its capacity before it fails
insert_slice_at_partial(self, slice, at) ==
  LET l == Len(slice)
      before == Len(self.bytes)
      grown == resize_default(self.bytes, Min(before + l, Cap))
  IN IF before + l > Cap THEN [res |-> "Err", self |-> from(grown.vec)]
     ELSE LET moved == copy_within(grown.vec, at, before, at + l) IN
          IF moved.panic THEN [res |-> "Panic", self |-> from(grown.vec)]
          ELSE [res |-> "Ok", self |-> from(copy_from_slice(moved.raw, at, l, slice).raw)]

\* insert_slice_at using the offset before the capacity check
insert_slice_at_offset_first(self, slice, at) ==
  LET l == Len(slice)
      before == Len(self.bytes)
  IN IF at > before THEN [res |-> "Panic", self |-> self]
     ELSE LET grown == resize_default(self.bytes, before + l) IN
          IF ~grown.ok THEN [res |-> "Err", self |-> self]
          ELSE [res |-> "Ok",
                self |-> from(copy_from_slice(
                           copy_within(grown.vec, at, before, at + l).raw,
                           at, l, slice).raw)]

\* Bytes::insert_slice_at; self is the buffer as the call leaves it
insert_slice_at(self, slice, at) ==
  LET l == Len(slice)
      before == Len(self.bytes)
      grown == resize_default(self.bytes, before + l)
  IN IF ~grown.ok THEN [res |-> "Err", self |-> self]
     ELSE LET moved == copy_within(grown.vec, at, before, at + l) IN
          IF moved.panic THEN [res |-> "Panic", self |-> from(grown.vec)]
          ELSE LET filled == copy_from_slice(moved.raw, at, l, slice) IN
               IF filled.panic THEN [res |-> "Panic", self |-> from(moved.raw)]
               ELSE [res |-> "Ok", self |-> from(filled.raw)]

\* PartialEq<Rhs>::eq
eq(self, other) == slice_eq(as_ref(self), other)

\* partial_cmp ordering by length before content
partial_cmp_by_len(self, other) ==
  IF Len(as_ref(self)) < Len(other) THEN "Less"
  ELSE IF Len(as_ref(self)) > Len(other) THEN "Greater"
  ELSE slice_partial_cmp(as_ref(self), other)

\* PartialOrd<Rhs>::partial_cmp
partial_cmp(self, other) == slice_partial_cmp(as_ref(self), other)

\* ------------------------------------------------------------- serde adapter
\* serialize emitting the bytes as a generic sequence (collect_seq)
serialize_as_seq(self) == <<[prim |-> "seq", data |-> as_ref(self)]>>

\* Serialize::serialize: the primitives handed to the serializer
serialize(self) == <<[prim |-> "bytes", data |-> as_ref(self)]>>

\* visit_bytes reporting capacity + 1 instead of the blob's length
visit_bytes_capacity_len(v) ==
  IF Len(v) > Cap
  THEN [res |-> "InvalidLength", value |-> <<>>, errLen |-> Cap + 1,
        pulled |-> 0, acc |-> <<>>]
  ELSE [res |-> "Ok", value |-> <<from(v)>>, errLen |-> 0,
        pulled |-> 0, acc |-> v]

\* ValueVisitor::visit_bytes
visit_bytes(v) ==
  IF Len(v) > Cap
  THEN [res |-> "InvalidLength", value |-> <<>>, errLen |-> Len(v),
        pulled |-> 0, acc |-> <<>>]
  ELSE LET r == extend_from_slice(<<>>, v) IN
       IF r.ok
       THEN [res |-> "Ok", value |-> <<from(r.vec)>>, errLen |-> 0,
             pulled |-> 0, acc |-> r.vec]
       ELSE [res |-> "InvalidLength", value |-> <<>>, errLen |-> Len(v),
             pulled |-> 0, acc |-> <<>>]

\* visit_seq ignoring a failed push and going on with the next element
RECURSIVE visit_seq_loop_dropping(_, _, _, _)
visit_seq_loop_dropping(values, elems, failAt, pulled) ==
  IF pulled + 1 = failAt
  THEN [res |-> "CursorError", value |-> <<>>, errLen |-> 0,
        pulled |-> pulled, acc |-> values]
  ELSE IF pulled = Len(elems)
  THEN [res |-> "Ok", value |-> <<from(values)>>, errLen |-> 0,
        pulled |-> pulled, acc |-> values]
  ELSE visit_seq_loop_dropping(push(values, elems[pulled + 1]).vec, elems,
                               failAt, pulled + 1)

\* ValueVisitor::visit_seq: the while-let loop over seq.next_element()?.
\* The cursor holds elems; its failAt-th call fails (0: it never fails).
\* pulled counts the elements obtained so far, values is the local vector.
RECURSIVE visit_seq_loop(_, _, _, _)
visit_seq_loop(values, elems, failAt, pulled) ==
  IF pulled + 1 = failAt
  THEN [res |-> "CursorError", value |-> <<>>, errLen |-> 0,
        pulled |-> pulled, acc |-> values]
  ELSE IF pulled = Len(elems)
  THEN [res |-> "Ok", value |-> <<from(values)>>, errLen |-> 0,
        pulled |-> pulled, acc |-> values]
  ELSE LET p == push(values, elems[pulled + 1]) IN
       IF ~p.ok
       THEN [res |-> "InvalidLength", value |-> <<>>, errLen |-> Cap + 1,
             pulled |-> pulled + 1, acc |-> values]
       ELSE visit_seq_loop(p.vec, elems, failAt, pulled + 1)

visit_seq(elems, failAt) == visit_seq_loop(<<>>, elems, failAt, 0)

\* Deserialize::deserialize: the deserializer drives the visitor with the
\* shape it finds on the wire
deserialize(wire, failAt) ==
  IF wire.prim = "bytes" THEN visit_bytes(wire.data)
  ELSE visit_seq(wire.data, failAt)

\* How a format carries the byte-string primitive to the decoder: a binary
\* format keeps it a byte string, a textual one presents a sequence of elements
present(format, prim) ==
  IF format = "binary" THEN prim
  ELSE [prim |-> "seq", data |-> [i \in 1..Len(prim.data) |-> prim.data[i]]]

\* ---------------------------------------------------------------------- state
VARIABLES
  buf,    \* the caller's Bytes<N>
  input,  \* the bytes the caller passes: slice, blob, elements or right-hand side
  call,   \* the last operation, its other arguments and the buffer it found
  ret     \* what it returned

vars == <<buf, input, call, ret>>

Call(op, at, failAt, shape) ==
  [op |-> op, at |-> at, failAt |-> failAt, shape |-> shape, before |-> buf]

Ret(res, value, errLen, pulled, acc, wire, equal, ord) ==
  [res |-> res, value |-> value, errLen |-> errLen, pulled |-> pulled,
   acc |-> acc, wire |-> wire, equal |-> equal, ord |-> ord]

Plain(res, value) == Ret(res, value, 0, 0, <<>>, <<>>, FALSE, "none")

Decoded(r, wire) ==
  Ret(r.res, r.value, r.errLen, r.pulled, r.acc, wire, FALSE, "none")

Init ==
  /\ buf = new
  /\ input \in Inputs
  /\ call = [op |-> "new", at |-> 0, failAt |-> 0, shape |-> "none",
             before |-> new]
  /\ ret = Plain("Ok", <<new>>)

\* let b = Bytes::new()
New ==
  /\ buf' = new
  /\ call' = Call("new", 0, 0, "none")
  /\ ret' = Plain("Ok", <<new>>)
  /\ UNCHANGED input

\* b.push(x) through DerefMut<Target = Vec<u8, N>>
Push ==
  \E x \in Byte :
    LET p == push(deref_mut(buf), x) IN
    /\ buf' = from(p.vec)
    /\ call' = Call("push", 0, 0, "none")
    /\ ret' = Plain(IF p.ok THEN "Ok" ELSE "Err", <<>>)
    /\ UNCHANGED input

\* b = Bytes::try_from_slice(input)?  (the caller keeps its buffer on Err)
TryFromSlice ==
  LET r == try_from_slice(input) IN
  /\ buf' = IF r.res = "Ok" THEN r.value[1] ELSE buf
  /\ call' = Call("try_from_slice", 0, 0, "none")
  /\ ret' = Plain(r.res, r.value)
  /\ UNCHANGED input

\* b.insert_slice_at(input, at); a panic unwinds and leaves the buffer as it
\* was at the panicking statement
InsertSliceAt ==
  \E at \in 0..(Cap + 1) :
    LET r == insert_slice_at(buf, input, at) IN
    /\ buf' = r.self
    /\ call' = Call("insert_slice_at", at, 0, "none")
    /\ ret' = Plain(r.res, <<>>)
    /\ UNCHANGED input

\* b.into_vec(): the caller is left with the vector, shown in acc
IntoVec ==
  /\ buf' = buf
  /\ call' = Call("into_vec", 0, 0, "none")
  /\ ret' = Ret("Ok", <<>>, 0, 0, into_vec(buf), <<>>, FALSE, "none")
  /\ UNCHANGED input

\* b == input and b.partial_cmp(input), input being any byte-slice view
Compare ==
  /\ buf' = buf
  /\ call' = Call("compare", 0, 0, "none")
  /\ ret' = Ret("Ok", <<>>, 0, 0, <<>>, <<>>, eq(buf, input),
                partial_cmp(buf, input))
  /\ UNCHANGED input

\* b.serialize(serializer)
Serialize ==
  /\ buf' = buf
  /\ call' = Call("serialize", 0, 0, "none")
  /\ ret' = Ret("Ok", <<>>, 0, 0, <<>>, serialize(buf), FALSE, "none")
  /\ UNCHANGED input

\* b = Bytes::deserialize(deserializer)? with input on the wire as a byte string
DeserializeBytes ==
  LET wire == [prim |-> "bytes", data |-> input]
      r == deserialize(wire, 0)
  IN /\ buf' = IF r.res = "Ok" THEN r.value[1] ELSE buf
     /\ call' = Call("deserialize", 0, 0, "bytes")
     /\ ret' = Decoded(r, <<wire>>)
     /\ UNCHANGED input

\* b = Bytes::deserialize(deserializer)? with input on the wire as a sequence,
\* whose cursor may fail at its failAt-th call
DeserializeSeq ==
  \E failAt \in 0..MaxInput :
    LET wire == [prim |-> "seq", data |-> input]
        r == deserialize(wire, failAt)
    IN /\ buf' = IF r.res = "Ok" THEN r.value[1] ELSE buf
       /\ call' = Call("deserialize", 0, failAt, "seq")
       /\ ret' = Decoded(r, <<wire>>)
       /\ UNCHANGED input

\* b = from_slice(to_vec(&b)?)?: encode, then decode what the format presents
RoundTrip ==
  \E format \in {"binary", "textual"} :
    LET prims == serialize(buf)
        r == deserialize(present(format, prims[1]), 0)
    IN /\ buf' = IF r.res = "Ok" THEN r.value[1] ELSE buf
       /\ call' = Call("round_trip", 0, 0, format)
       /\ ret' = Decoded(r, prims)
       /\ UNCHANGED input

Next ==
  \/ New
  \/ Push
  \/ TryFromSlice
  \/ InsertSliceAt
  \/ IntoVec
  \/ Compare
  \/ Serialize
  \/ DeserializeBytes
  \/ DeserializeSeq
  \/ RoundTrip

Spec == Init /\ [][Next]_vars

\* ----------------------------------------------------------------- properties
B == call.before.bytes
L == Len(B)
Zeros(n) == [i \in 1..n |-> 0]
IsInsert == call.op = "insert_slice_at"

\* C1: after try_from_slice, insert_slice_at with 0 <= at <= L, a byte-string
\* decode or a sequence decode (and after new), succeeded or failed, the
\* buffer's length is within 0..Cap, and so is that of any buffer returned.
CapacityInvariant ==
  (/\ call.op \in {"new", "try_from_slice", "insert_slice_at", "deserialize"}
   /\ IsInsert => call.at <= L)
  => /\ Len(buf.bytes) \in 0..Cap
     /\ \A i \in 1..Len(ret.value) : Len(ret.value[i].bytes) \in 0..Cap

\* C1 witness: an insertion at a valid offset refused on a full buffer
CapacityWitness ==
  /\ IsInsert /\ call.at <= L /\ Len(input) > 0
  /\ ret.res = "Err" /\ Len(buf.bytes) = Cap

\* C2: insert_slice_at with 0 <= at <= L and L + len(S) <= Cap returns Ok, the
\* new length is L + len(S) and the content is B[0..at] ++ S ++ B[at..L].
InsertSuccess ==
  (IsInsert /\ call.at <= L /\ L + Len(input) <= Cap)
  => /\ ret.res = "Ok"
     /\ Len(buf.bytes) = L + Len(input)
     /\ buf.bytes = SubSeq(B, 1, call.at) \o input \o SubSeq(B, call.at + 1, L)

\* C2 witness: a non-empty slice inserted strictly inside the content
InsertSuccessWitness ==
  /\ IsInsert /\ ret.res = "Ok"
  /\ 0 < call.at /\ call.at < L /\ Len(input) > 0
  /\ B[call.at] # B[call.at + 1]

\* C3: insert_slice_at with 0 <= at <= L and L + len(S) > Cap returns the
\* capacity error and leaves length and content as they were.
InsertCapacityFailure ==
  (IsInsert /\ call.at <= L /\ L + Len(input) > Cap)
  => ret.res = "Err" /\ buf = call.before

\* C3 witness: a slice that would fit an empty buffer refused on a partly
\* filled one
InsertCapacityFailureWitness ==
  /\ IsInsert /\ call.at <= L /\ ret.res = "Err"
  /\ 0 < L /\ L < Cap /\ Len(input) <= Cap /\ L + Len(input) > Cap

\* C4: insert_slice_at called with at > L validates the offset and returns an
\* error; it never traps.
InsertIndexValidated ==
  (IsInsert /\ call.at > L) => ret.res = "Err"

\* C5: try_from_slice(s) succeeds iff len(s) <= Cap; on success the buffer has
\* length len(s) and into_vec of it is s; on failure it returns the capacity
\* error and no buffer.
TryFromSliceCorrect ==
  call.op = "try_from_slice"
  => /\ ret.res = "Ok" <=> Len(input) <= Cap
     /\ ret.res = "Ok" => /\ Len(ret.value) = 1
                          /\ Len(ret.value[1].bytes) = Len(input)
                          /\ into_vec(ret.value[1]) = input
                          /\ buf = ret.value[1]
     /\ ret.res # "Ok" => ret.res = "Err" /\ ret.value = <<>>

\* C5 witness: a slice of exactly Cap bytes, not all alike, accepted
TryFromSliceWitness ==
  /\ call.op = "try_from_slice" /\ ret.res = "Ok"
  /\ Len(input) = Cap /\ input[1] # input[Cap]

\* C6: decoding a byte string of length M succeeds iff M <= Cap, giving a
\* buffer of length M with the blob's bytes; when M > Cap it fails with
\* InvalidLength carrying M.
AtomicDecode ==
  (call.op = "deserialize" /\ call.shape = "bytes")
  => /\ ret.res = "Ok" <=> Len(input) <= Cap
     /\ ret.res = "Ok" => /\ Len(ret.value) = 1
                          /\ Len(ret.value[1].bytes) = Len(input)
                          /\ ret.value[1].bytes = input
     /\ ret.res # "Ok" => /\ ret.res = "InvalidLength"
                          /\ ret.errLen = Len(input)
                          /\ ret.value = <<>>

\* C6 witness: a blob two bytes too long refused
AtomicDecodeWitness ==
  /\ call.op = "deserialize" /\ call.shape = "bytes"
  /\ Len(input) = Cap + 2 /\ ret.res = "InvalidLength"

\* C7: when the cursor delivers a (Cap+1)th element, the first Cap elements
\* have been pushed in order and the decode fails at once with InvalidLength
\* carrying count + 1 = Cap + 1, pulls nothing more and returns no buffer.
SeqDecodeOverflow ==
  (/\ call.op = "deserialize" /\ call.shape = "seq"
   /\ Len(input) > Cap
   /\ call.failAt = 0 \/ call.failAt > Cap + 1)
  => /\ ret.res = "InvalidLength"
     /\ ret.acc = SubSeq(input, 1, Cap)
     /\ ret.errLen = Len(ret.acc) + 1
     /\ ret.errLen = Cap + 1
     /\ ret.pulled = Cap + 1
     /\ ret.value = <<>>

\* C7 witness: a sequence with an element left after the overflowing one, on a
\* cursor that would fail if asked for it
SeqDecodeOverflowWitness ==
  /\ call.op = "deserialize" /\ call.shape = "seq" /\ call.failAt = Cap + 2
  /\ Len(input) = Cap + 2 /\ ret.res = "InvalidLength"

\* C8: encoding emits exactly one byte-string primitive with the buffer's
\* length and bytes, and decoding it, as a byte string or as a sequence of its
\* elements, gives a buffer equal to the original.
RoundTripExact ==
  call.op = "round_trip"
  => /\ Len(ret.wire) = 1
     /\ ret.wire[1].prim = "bytes"
     /\ Len(ret.wire[1].data) = L
     /\ ret.wire[1].data = B
     /\ ret.res = "Ok"
     /\ ret.value = <<call.before>>
     /\ buf = call.before

\* C8 witness: a full buffer, not all bytes alike, through the sequence shape
RoundTripWitness ==
  /\ call.op = "round_trip" /\ call.shape = "textual"
  /\ L = Cap /\ B[1] # B[Cap] /\ ret.res = "Ok"

\* C9: eq is true iff the two byte sequences have the same length and the same
\* elements; partial_cmp is the lexicographic order on bytes and is Equal
\* exactly when eq is true.
LexLess(a, b) ==
  \E k \in 0..Min(Len(a), Len(b)) :
    /\ \A i \in 1..k : a[i] = b[i]
    /\ \/ k = Len(a) /\ k < Len(b)
       \/ k < Len(a) /\ k < Len(b) /\ a[k + 1] < b[k + 1]

CompareLexicographic ==
  call.op = "compare"
  => /\ ret.equal <=> /\ Len(buf.bytes) = Len(input)
                      /\ \A i \in 1..Len(input) : buf.bytes[i] = input[i]
     /\ ret.ord \in {"Less", "Equal", "Greater"}
     /\ ret.ord = "Less" <=> LexLess(buf.bytes, input)
     /\ ret.ord = "Greater" <=> LexLess(input, buf.bytes)
     /\ ret.ord = "Equal" <=> ret.equal

\* C9 witness: a longer buffer that is smaller than a shorter right-hand side
CompareWitness ==
  /\ call.op = "compare" /\ ~ret.equal /\ ret.ord = "Less"
  /\ Len(buf.bytes) > Len(input) /\ Len(input) > 1
  /\ buf.bytes[1] = input[1]

\* C10: the capacity check precedes every use of the offset: a call that does
\* not fit returns the capacity error with the buffer untouched whatever the
\* offset; the buffer is grown by zero bytes only when the check passed, and
\* the offset is used only on the grown buffer.
CheckOrdering ==
  IsInsert
  => /\ L + Len(input) > Cap => ret.res = "Err" /\ buf = call.before
     /\ ret.res = "Err" => L + Len(input) > Cap
     /\ ret.res = "Panic" => /\ L + Len(input) <= Cap
                             /\ call.at > L
                             /\ buf.bytes = B \o Zeros(Len(input))
     /\ ret.res = "Ok" => Len(buf.bytes) = L + Len(input) /\ call.at <= L

\* C10 witness: an offset past the end together with a slice that does not fit
CheckOrderingWitness ==
  /\ IsInsert /\ call.at > L /\ L + Len(input) > Cap
  /\ L > 0 /\ Len(input) <= Cap /\ ret.res = "Err"

====
